---- MODULE Spec2Model ----
(***************************************************************************)
(* ASL monitoring system: the health-check engine (monitoring_engine.py),  *)
(* the incident tracker (incident_tracker.py) and the monitoring loop that *)
(* drives them (asl_monitor.py).                                           *)
(*                                                                         *)
(* The system-metrics side is the alert manager (modules/alert_manager.py): *)
(* threshold checks gated by a per-key cooldown and a capped alert history. *)
(*                                                                         *)
(* Five specifications share the variables:                                *)
(*   Spec        the monitoring service: start(), the cycles of            *)
(*               _monitoring_loop, stop();                                 *)
(*   SpecTracker an IncidentTracker driven directly through its public     *)
(*               methods, in any order, with time passing between calls;   *)
(*   SpecMonitor ServiceMonitor.check_health called directly;              *)
(*   SpecAlerts  AlertManager.check_thresholds called on metric snapshots, *)
(*               with time passing between calls;                          *)
(*   SpecHistory AlertManager._send_alert called alert after alert.        *)
(*                                                                         *)
(* Time is an integer number of ticks; TicksPerSecond ticks make a second. *)
(* Python's None is the empty sequence, a present value x is <<x>>.        *)
(***************************************************************************)
EXTENDS Integers, Sequences, FiniteSets, TLC

\* ------------------------------------------------------------- bounds
\* Last instant of the clock that the model explores.
MaxTime == 9
\* Cap of consecutive_failures (a Python int, unbounded in the code).
MaxFailures == 3
\* Longest probe, in ticks.
MaxProbeTicks == 2
\* Last instant of the clock under SpecTracker.
MaxTrackerTime == 1
\* Number of direct tracker calls explored by SpecTracker.
MaxCalls == 4
\* Number of check_thresholds calls explored by SpecAlerts.
MaxChecks == 3
\* Number of advances of the alert manager's clock explored by SpecAlerts.
MaxAdvances == 2
\* Number of alerts sent one after the other under SpecHistory.
MaxEmitted == 1002
\* Longest duration, in ticks, that SpecFormat formats.
MaxDurationTicks == 7400
\* Number of checks of the ASL system explored by SpecApp.
MaxAppChecks == 8
\* Number of items stored, and largest limit read with, under SpecReaders.
MaxStored == 3
\* Horizon of the clock, in ticks, under SpecLive.
MaxLiveTime == 3

\* ------------------------------------------------------ configuration
\* strftime('%Y%m%d_%H%M%S') keeps whole seconds, isoformat() keeps the
\* sub-second part: the clock has TicksPerSecond instants per second.
TicksPerSecond == 2
\* config['monitoring']['failure_threshold'] (default of MonitoringEngine).
FailureThreshold == 2
\* config['monitoring']['check_interval'], in ticks.
CheckInterval == 2
\* expected_status default and the status of an unhealthy answer.
ExpectedStatus == 200
BadStatus == 500

\* config['services'], in configuration order (names only).
Services == <<"api", "db">>

ServiceNames == {Services[i] : i \in 1..Len(Services)}

None == <<>>
Some(x) == <<x>>

\* The default thresholds of the alert manager, in percent.
CpuThreshold == 80
MemoryThreshold == 85
DiskThreshold == 90
SwapThreshold == 75
\* ALERT_COOLDOWN_SECONDS (default), in seconds.
AlertCooldown == 300
\* The number of alerts alert_history keeps.
HistoryLimit == 1000
\* The mountpoints of metrics['disk']['partitions'], in the order listed.
Mountpoints == <<"/", "/data">>
\* The clock of the alert manager counts seconds since the epoch; the
\* earliest reading explored is one cooldown after it.
ClockStart == AlertCooldown

VARIABLES
    now,                  \* the wall clock, in ticks
    pc,                   \* position of the service: idle, top, process, sleep, done, crashed
    running,              \* ASLMonitoringService.running
    cycle_start,          \* time.time() at the top of the current cycle
    consecutive_failures, \* ServiceMonitor.consecutive_failures, per service
    last_check_result,    \* ServiceMonitor.last_check_result, per service
    results,              \* the mapping check_all_services returned
    active_incidents,     \* IncidentTracker.active_incidents: a dict keyed by service
    files,                \* the incidents directory: incident id -> stored record
    last_call,            \* observer: the operation of the latest step and its outcome
    opened,               \* observer: services started and not ended since (by calls)
    issued,               \* observer: incident id -> number of start_incident calls that returned it
    ncalls,               \* observer: direct tracker calls made (SpecTracker)
    streak_starts,        \* observer: start_incident calls of the loop since the service's last success
    streak_alerts,        \* observer: send_alert calls of the loop since the service's last success
    probed,               \* observer: the monitors check_health ran on in the current cycle, in call order
    alert_at,             \* observer: per service, the instant of the loop's latest send_alert call
    recoveries,           \* observer: per service, the send_recovery calls of the loop
    alert_clock,          \* datetime.now().timestamp() as AlertManager reads it, in seconds
    last_alert_time,      \* AlertManager.last_alert_time: a dict keyed by cooldown key
    alert_history,        \* AlertManager.alert_history
    emitted,              \* observer: every alert handed to _send_alert, with the instant of its check
    nchecks,              \* observer: check_thresholds calls made (SpecAlerts)
    nadvances,            \* observer: advances of alert_clock made (SpecAlerts)
    formatted,            \* what the latest _format_duration call returned (SpecFormat)
    monitors,             \* MonitoringEngine.monitors of an engine built from a configuration (SpecEngine)
    failure_threshold,    \* MonitoringEngine.failure_threshold of that engine
    engine_results,       \* what its latest check_all_services call returned
    failing_ret,          \* what its latest get_failing_services call returned
    created,              \* observer: the incidents start_incident calls returned (SpecTracker)
    app_pc,               \* position of app.ASLMonitor: idle, loop, stopped, crashed
    is_running,           \* app.ASLMonitor.is_running
    app_metrics,          \* app.ASLMonitor.metrics (without last_check)
    notified,             \* observer: per service, the send_alert and send_recovery calls of the loop, in call order
    slack_delivery,       \* observer: how the Slack deliveries of the latest check_thresholds call ended
    memory_store,         \* DataStore.memory_store, oldest item first
    last_notice           \* observer: per service, the kind of the latest notification of the loop (SpecLive)

vars == <<now, pc, running, cycle_start, consecutive_failures, last_check_result,
          results, active_incidents, files, last_call, opened, issued, ncalls,
          streak_starts, streak_alerts, probed, alert_at, recoveries,
          alert_clock, last_alert_time, alert_history, emitted, nchecks, nadvances,
          formatted, monitors, failure_threshold, engine_results, failing_ret, created,
          app_pc, is_running, app_metrics, notified, slack_delivery, memory_store, last_notice>>

engineVars == <<consecutive_failures, last_check_result, results>>
trackerVars == <<active_incidents, files>>
loopVars == <<pc, running, cycle_start>>
streakVars == <<streak_starts, streak_alerts>>
obsVars == <<probed, alert_at, recoveries>>
alertVars == <<alert_clock, last_alert_time, alert_history, emitted, nchecks, nadvances>>
appVars == <<app_pc, is_running, app_metrics>>
moreVars == <<app_pc, is_running, app_metrics, notified, slack_delivery, memory_store, last_notice>>
restVars == <<formatted, monitors, failure_threshold, engine_results, failing_ret, moreVars>>

\* ------------------------------------------------ monitoring_engine.py
\* What one HTTP probe can end in, and how long it took.
ProbeKinds == {"ok", "bad_status", "timeout", "connection_error", "other_error"}
Probes == [kind : ProbeKinds, ticks : 0..MaxProbeTicks]
\* The probes the cycles of the service are explored with: a healthy answer
\* comes at once, an unhealthy one after a tick, a timeout takes the longest.
LoopProbes ==
    {[kind |-> "ok", ticks |-> 0],
     [kind |-> "bad_status", ticks |-> 1],
     [kind |-> "timeout", ticks |-> MaxProbeTicks]}

\* HealthCheckResult (without its timestamp).
HealthCheckResult(success, status_code, response_time, error) ==
    [success |-> success, status_code |-> status_code,
     response_time |-> response_time, error |-> error]

\* check_health taking any response for a success, whatever its status code.
check_health_status_ignored(failures, probe) ==
    IF probe.kind = "ok"
    THEN [result |-> HealthCheckResult(TRUE, Some(ExpectedStatus), probe.ticks, None),
          consecutive_failures |-> 0]
    ELSE IF probe.kind = "bad_status"
    THEN [result |-> HealthCheckResult(TRUE, Some(BadStatus), probe.ticks, None),
          consecutive_failures |-> 0]
    ELSE [result |-> HealthCheckResult(FALSE, None, probe.ticks, Some("Erreur")),
          consecutive_failures |-> failures + 1]

\* check_health with the success branch leaving the counter as it was.
check_health_no_reset(failures, probe) ==
    IF probe.kind = "ok"
    THEN [result |-> HealthCheckResult(TRUE, Some(ExpectedStatus), probe.ticks, None),
          consecutive_failures |-> failures]
    ELSE [result |-> HealthCheckResult(FALSE, None, probe.ticks, Some("Erreur")),
          consecutive_failures |-> failures + 1]

\* check_health with the last except branch missing its increment.
check_health_other_uncounted(failures, probe) ==
    IF probe.kind = "ok"
    THEN [result |-> HealthCheckResult(TRUE, Some(ExpectedStatus), probe.ticks, None),
          consecutive_failures |-> 0]
    ELSE IF probe.kind = "other_error"
    THEN [result |-> HealthCheckResult(FALSE, None, probe.ticks, Some("Erreur")),
          consecutive_failures |-> failures]
    ELSE [result |-> HealthCheckResult(FALSE, None, probe.ticks, Some("Erreur")),
          consecutive_failures |-> failures + 1]

\* ServiceMonitor.check_health: the result of the probe and the new counter.
check_health(failures, probe) ==
    IF probe.kind = "ok"
    THEN [result |-> HealthCheckResult(TRUE, Some(ExpectedStatus), probe.ticks, None),
          consecutive_failures |-> 0]
    ELSE IF probe.kind = "bad_status"
    THEN [result |-> HealthCheckResult(FALSE, Some(BadStatus), probe.ticks, Some("Status code")),
          consecutive_failures |-> failures + 1]
    ELSE IF probe.kind = "timeout"
    THEN [result |-> HealthCheckResult(FALSE, None, probe.ticks, Some("Timeout")),
          consecutive_failures |-> failures + 1]
    ELSE IF probe.kind = "connection_error"
    THEN [result |-> HealthCheckResult(FALSE, None, probe.ticks, Some("Erreur de connexion")),
          consecutive_failures |-> failures + 1]
    ELSE [result |-> HealthCheckResult(FALSE, None, probe.ticks, Some("Erreur")),
          consecutive_failures |-> failures + 1]

\* get_failing_services comparing with > where the code has >=.
get_failing_services_above(failures) ==
    SelectSeq(Services, LAMBDA s : failures[s] > FailureThreshold)

\* MonitoringEngine.get_failing_services: the monitors at or above the
\* threshold, in configuration order.
get_failing_services(failures) ==
    SelectSeq(Services, LAMBDA s : failures[s] >= FailureThreshold)

\* check_all_services leaving its loop at the first probe that failed, as
\* if the failure of check_health escaped to the caller.
RECURSIVE check_all_services_stops(_, _, _)
check_all_services_stops(acc, plan, i) ==
    IF i > Len(Services) THEN acc
    ELSE LET name == Services[i]
             r == check_health(acc.failures[name], plan[name])
             after == [failures |-> [acc.failures EXCEPT ![name] = r.consecutive_failures],
                       last |-> [acc.last EXCEPT ![name] = Some(r.result)],
                       results |-> (name :> r.result) @@ acc.results,
                       probed |-> Append(acc.probed, name)]
         IN  IF r.result.success
             THEN check_all_services_stops(after, plan, i + 1)
             ELSE after

\* check_all_services probing the first monitor only, the others being left
\* for later.
check_all_services_first_only(acc, plan, i) ==
    LET name == Services[1]
        r == check_health(acc.failures[name], plan[name])
    IN  [failures |-> [acc.failures EXCEPT ![name] = r.consecutive_failures],
         last |-> [acc.last EXCEPT ![name] = Some(r.result)],
         results |-> (name :> r.result) @@ acc.results,
         probed |-> Append(acc.probed, name)]

\* MonitoringEngine.check_all_services from monitor i on: check_health on
\* each monitor in turn, its result filed under the monitor's name.
RECURSIVE check_all_services(_, _, _)
check_all_services(acc, plan, i) ==
    IF i > Len(Services) THEN acc
    ELSE LET name == Services[i]
             r == check_health(acc.failures[name], plan[name])
         IN  check_all_services(
                 [failures |-> [acc.failures EXCEPT ![name] = r.consecutive_failures],
                  last |-> [acc.last EXCEPT ![name] = Some(r.result)],
                  results |-> (name :> r.result) @@ acc.results,
                  probed |-> Append(acc.probed, name)],
                 plan, i + 1)

\* MonitoringEngine.__init__ on any configuration: one ServiceMonitor per
\* entry of services_config, built from service.get('name') and
\* service.get('url') (None when the key is missing); nothing is checked.
engine_init(config, threshold) ==
    [monitors |-> [i \in 1..Len(config) |->
                      [name |-> config[i].name, url |-> config[i].url,
                       consecutive_failures |-> 0,
                       last_check_result |-> None]],
     failure_threshold |-> Some(threshold),
     raised |-> FALSE]

\* What the probe of a monitor ends in: requests.request raises for a URL
\* that is None, and check_health catches it in its last except branch.
effective_probe(monitor, probe) ==
    IF monitor.url = None THEN [kind |-> "other_error", ticks |-> 0] ELSE probe

\* MonitoringEngine.check_all_services of that engine, from monitor i on:
\* results[monitor.name] = monitor.check_health().
RECURSIVE engine_check_all(_, _, _)
engine_check_all(acc, plan, i) ==
    IF i > Len(acc.monitors) THEN acc
    ELSE LET monitor == acc.monitors[i]
             r == check_health(monitor.consecutive_failures,
                               effective_probe(monitor, plan[i]))
         IN  engine_check_all(
                 [monitors |-> [acc.monitors EXCEPT
                                   ![i].consecutive_failures = r.consecutive_failures,
                                   ![i].last_check_result = Some(r.result)],
                  results |-> (monitor.name :> r.result) @@ acc.results],
                 plan, i + 1)

\* get_failing_services of that engine, latest monitor first.
engine_get_failing_reversed(mons, threshold) ==
    LET hits == SelectSeq([i \in 1..Len(mons) |-> i],
                          LAMBDA i : mons[i].consecutive_failures >= threshold)
    IN  [i \in 1..Len(hits) |-> hits[Len(hits) + 1 - i]]

\* MonitoringEngine.get_failing_services of that engine: the monitors (by
\* position in self.monitors) at or above the threshold, in list order.
engine_get_failing(mons, threshold) ==
    SelectSeq([i \in 1..Len(mons) |-> i],
              LAMBDA i : mons[i].consecutive_failures >= threshold)

RECURSIVE SumTicks(_, _)
SumTicks(plan, i) ==
    IF i = 0 THEN 0 ELSE plan[Services[i]].ticks + SumTicks(plan, i - 1)

\* ------------------------------------------------- incident_tracker.py
\* The incident id: service name and start time to the second.
incident_id(service_name, t) == <<service_name, t \div TicksPerSecond>>

\* IncidentTracker._save_incident: one file per id, rewritten whole.
\* A write that fails raises and leaves the directory as it was.
save_incident(dir, incident, write_ok) ==
    IF write_ok THEN (incident.id :> incident) @@ dir ELSE dir

\* has_active_incident looking the service up under a key that is never there.
has_active_incident_never(active, service_name) == FALSE

\* IncidentTracker.has_active_incident
has_active_incident(active, service_name) == service_name \in DOMAIN active

\* IncidentTracker.get_active_incident
get_active_incident(active, service_name) ==
    IF service_name \in DOMAIN active THEN Some(active[service_name]) ELSE None
\* start_incident replacing the dictionary of active incidents by the new
\* incident alone.
start_incident_alone(active, dir, service_name, details, t, write_ok) ==
    LET incident == [id |-> incident_id(service_name, t),
                     service |-> service_name,
                     start_time |-> t,
                     end_time |-> None,
                     duration_seconds |-> None,
                     details |-> details,
                     status |-> "active"]
    IN  [active |-> (service_name :> incident),
         files |-> save_incident(dir, incident, write_ok),
         id |-> incident.id,
         raised |-> ~write_ok]

\* IncidentTracker.start_incident: the tracker after the call, the id it
\* returns and whether it raised (the write failed).
start_incident(active, dir, service_name, details, t, write_ok) ==
    LET incident == [id |-> incident_id(service_name, t),
                     service |-> service_name,
                     start_time |-> t,
                     end_time |-> None,
                     duration_seconds |-> None,
                     details |-> details,
                     status |-> "active"]
    IN  [active |-> (service_name :> incident) @@ active,
         files |-> save_incident(dir, incident, write_ok),
         id |-> incident.id,
         raised |-> ~write_ok]

\* end_incident deleting the incident without saving the resolved record.
end_incident_unsaved(active, dir, service_name, t, write_ok) ==
    IF service_name \notin DOMAIN active
    THEN [active |-> active, files |-> dir, raised |-> FALSE]
    ELSE [active |-> [s \in DOMAIN active \ {service_name} |-> active[s]],
          files |-> dir,
          raised |-> FALSE]

\* end_incident without its membership guard: the lookup of a service that
\* has no active incident raises KeyError.
end_incident_unguarded(active, dir, service_name, t, write_ok) ==
    IF service_name \notin DOMAIN active
    THEN [active |-> active, files |-> dir, raised |-> TRUE]
    ELSE [active |-> [s \in DOMAIN active \ {service_name} |-> active[s]],
          files |-> save_incident(dir,
                       [active[service_name] EXCEPT
                            !.end_time = Some(t),
                            !.duration_seconds = Some(t - active[service_name].start_time),
                            !.status = "resolved"], TRUE),
          raised |-> FALSE]

\* end_incident with the operands of the duration swapped.
end_incident_backwards(active, dir, service_name, t, write_ok) ==
    IF service_name \notin DOMAIN active
    THEN [active |-> active, files |-> dir, raised |-> FALSE]
    ELSE LET incident == [active[service_name] EXCEPT
                              !.end_time = Some(t),
                              !.duration_seconds = Some(active[service_name].start_time - t),
                              !.status = "resolved"]
         IN  IF write_ok
             THEN [active |-> [s \in DOMAIN active \ {service_name} |-> active[s]],
                   files |-> save_incident(dir, incident, TRUE),
                   raised |-> FALSE]
             ELSE [active |-> (service_name :> incident) @@ active,
                   files |-> dir,
                   raised |-> TRUE]

\* IncidentTracker.end_incident: the incident dict is changed in place,
\* saved, and then deleted from the active set; a failed write raises
\* before the delete.
end_incident(active, dir, service_name, t, write_ok) ==
    IF service_name \notin DOMAIN active
    THEN [active |-> active, files |-> dir, raised |-> FALSE]
    ELSE LET incident == [active[service_name] EXCEPT
                              !.end_time = Some(t),
                              !.duration_seconds = Some(t - active[service_name].start_time),
                              !.status = "resolved"]
         IN  IF write_ok
             THEN [active |-> [s \in DOMAIN active \ {service_name} |-> active[s]],
                   files |-> save_incident(dir, incident, TRUE),
                   raised |-> FALSE]
             ELSE [active |-> (service_name :> incident) @@ active,
                   files |-> dir,
                   raised |-> TRUE]

\* datetime.isoformat() of instant t, as far as string comparison goes: the
\* whole seconds, followed by the fraction unless it is zero (isoformat
\* leaves a zero microsecond part out).
isoformat(t) ==
    IF t % TicksPerSecond = 0
    THEN <<t \div TicksPerSecond>>
    ELSE <<t \div TicksPerSecond, t % TicksPerSecond>>

\* a <= b for two such strings, compared as Python compares str: character
\* by character, a proper prefix being smaller.
str_le(a, b) ==
    \/ a[1] < b[1]
    \/ /\ a[1] = b[1]
       /\ \/ Len(a) = 1
          \/ Len(b) = 2 /\ a[2] <= b[2]

\* The position at which list.sort(reverse=True) puts incident x in the
\* sorted list `sorted`, x coming after it in the unsorted list: behind
\* every incident whose key is greater or equal (the sort is stable).
RECURSIVE insert_desc(_, _, _)
insert_desc(sorted, x, i) ==
    IF i > Len(sorted) THEN Append(sorted, x)
    ELSE IF str_le(isoformat(x.start_time), isoformat(sorted[i].start_time))
    THEN insert_desc(sorted, x, i + 1)
    ELSE SubSeq(sorted, 1, i - 1) \o <<x>> \o SubSeq(sorted, i, Len(sorted))

RECURSIVE sort_desc(_, _)
sort_desc(incidents, n) ==
    IF n = 0 THEN <<>>
    ELSE insert_desc(sort_desc(incidents, n - 1), incidents[n], 1)

\* get_incident_history sorting by start_time without reverse=True.
RECURSIVE insert_asc(_, _, _)
insert_asc(sorted, x, i) ==
    IF i > Len(sorted) THEN Append(sorted, x)
    ELSE IF str_le(isoformat(sorted[i].start_time), isoformat(x.start_time))
    THEN insert_asc(sorted, x, i + 1)
    ELSE SubSeq(sorted, 1, i - 1) \o <<x>> \o SubSeq(sorted, i, Len(sorted))

RECURSIVE sort_asc(_, _)
sort_asc(incidents, n) ==
    IF n = 0 THEN <<>>
    ELSE insert_asc(sort_asc(incidents, n - 1), incidents[n], 1)

get_incident_history_ascending(dir, listing, limit) ==
    LET incidents == [i \in 1..Len(listing) |-> dir[listing[i]]]
        sorted == sort_asc(incidents, Len(incidents))
    IN  SubSeq(sorted, 1, IF limit < Len(sorted) THEN limit ELSE Len(sorted))

\* IncidentTracker.get_incident_history(limit): the files of the directory
\* are read in the order os.listdir gives them (`listing`), sorted by
\* start_time, latest first, and cut to the first `limit`.
get_incident_history(dir, listing, limit) ==
    LET incidents == [i \in 1..Len(listing) |-> dir[listing[i]]]
        sorted == sort_desc(incidents, Len(incidents))
    IN  SubSeq(sorted, 1, IF limit < Len(sorted) THEN limit ELSE Len(sorted))

\* --------------------------------------------------- slack_notifier.py
\* What a send_alert / send_recovery call can end in: returned at once
\* (disabled or no client), posted, SlackApiError (caught and printed), or
\* any other exception of the client (not caught).
NotifierOutcomes == {"disabled", "sent", "api_error", "other_error"}

\* The message was not delivered: chat_postMessage raised.
delivery_failed(outcome) == outcome \in {"api_error", "other_error"}

\* SlackNotifier.send_alert: whether the call raises.
send_alert_raises(outcome) == outcome = "other_error"

\* SlackNotifier.send_recovery: whether the call raises.
send_recovery_raises(outcome) == outcome = "other_error"

\* _format_duration rounding to the nearest second where the code truncates.
format_duration_rounded(ticks) ==
    LET second == TicksPerSecond
        minute == 60 * TicksPerSecond
        hour == 3600 * TicksPerSecond
    IN  IF ticks < minute
        THEN ToString((ticks + second \div 2) \div second) \o "s"
        ELSE IF ticks < hour
        THEN ToString(ticks \div minute) \o "m "
                 \o ToString(((ticks % minute) + second \div 2) \div second) \o "s"
        ELSE ToString(ticks \div hour) \o "h " \o ToString((ticks % hour) \div minute) \o "m"

\* SlackNotifier._format_duration of a duration of `ticks` ticks, that is of
\* ticks / TicksPerSecond seconds: int() truncates, // and % are the floor
\* division and its remainder.
format_duration(ticks) ==
    LET second == TicksPerSecond
        minute == 60 * TicksPerSecond
        hour == 3600 * TicksPerSecond
    IN  IF ticks < minute
        THEN ToString(ticks \div second) \o "s"
        ELSE IF ticks < hour
        THEN ToString(ticks \div minute) \o "m "
                 \o ToString((ticks % minute) \div second) \o "s"
        ELSE ToString(ticks \div hour) \o "h " \o ToString((ticks % hour) \div minute) \o "m"

\* ------------------------------------------------------ asl_monitor.py
\* At most one call of a cycle's processing raises (the first exception
\* ends the loop): None, a failed write for a service, or a notifier
\* outcome other than "sent" for a service.
Faults ==
    {None}
    \cup {<<"write", s>> : s \in ServiceNames}
    \cup {<<"send", s, o>> : s \in ServiceNames, o \in NotifierOutcomes \ {"sent"}}

write_ok(fault, s) == fault # <<"write", s>>

notifier_outcome(fault, s) ==
    IF fault # None /\ fault[1] = "send" /\ fault[2] = s THEN fault[3] ELSE "sent"

\* One more start_incident call returned this id.
Issue(ids, id) ==
    IF id \in DOMAIN ids THEN [ids EXCEPT ![id] = @ + 1] ELSE (id :> 1) @@ ids

\* open_step opening an incident whether the service has one or not.
open_step_unguarded(st, s, fault) ==
    IF st.raised
    THEN st
    ELSE LET result == results[s]
             details == [error |-> result.error,
                         status_code |-> result.status_code,
                         response_time |-> result.response_time,
                         consecutive_failures |-> consecutive_failures[s]]
             r == start_incident(st.active, st.files, s, details, now, write_ok(fault, s))
         IN  IF r.raised
             THEN [st EXCEPT !.active = r.active, !.files = r.files, !.raised = TRUE,
                             !.starts[s] = @ + 1,
                             !.cause = "write"]
             ELSE [st EXCEPT !.active = r.active, !.files = r.files,
                             !.starts[s] = @ + 1,
                             !.issued = Issue(@, r.id),
                             !.alerts[s] = @ + 1,
                             !.alert_at[s] = Some(now),
                             !.notified[s] = Append(@, [kind |-> "alert", id |-> r.id]),
                             !.cause = IF delivery_failed(notifier_outcome(fault, s))
                                       THEN "send" ELSE @,
                             !.raised = send_alert_raises(notifier_outcome(fault, s))]

\* _process_results, first loop, one failing monitor: open an incident and
\* send the alert unless the service already has an active incident.
open_step(st, s, fault) ==
    IF st.raised \/ has_active_incident(st.active, s)
    THEN st
    ELSE LET result == results[s]
             details == [error |-> result.error,
                         status_code |-> result.status_code,
                         response_time |-> result.response_time,
                         consecutive_failures |-> consecutive_failures[s]]
             r == start_incident(st.active, st.files, s, details, now, write_ok(fault, s))
         IN  IF r.raised
             THEN [st EXCEPT !.active = r.active, !.files = r.files, !.raised = TRUE,
                             !.starts[s] = @ + 1,
                             !.cause = "write"]
             ELSE [st EXCEPT !.active = r.active, !.files = r.files,
                             !.starts[s] = @ + 1,
                             !.issued = Issue(@, r.id),
                             !.alerts[s] = @ + 1,
                             !.alert_at[s] = Some(now),
                             !.notified[s] = Append(@, [kind |-> "alert", id |-> r.id]),
                             !.cause = IF delivery_failed(notifier_outcome(fault, s))
                                       THEN "send" ELSE @,
                             !.raised = send_alert_raises(notifier_outcome(fault, s))]

\* close_step without its send_recovery call.
close_step_silent(st, s, fault) ==
    IF st.raised \/ ~(consecutive_failures[s] = 0 /\ has_active_incident(st.active, s))
    THEN st
    ELSE LET r == end_incident(st.active, st.files, s, now, write_ok(fault, s))
         IN  IF r.raised
             THEN [st EXCEPT !.active = r.active, !.files = r.files, !.raised = TRUE,
                             !.cause = "write"]
             ELSE [st EXCEPT !.active = r.active, !.files = r.files]

\* _process_results, second loop, one monitor: close the incident and send
\* the recovery when the service is back to 0 failures.
close_step(st, s, fault) ==
    IF st.raised \/ ~(consecutive_failures[s] = 0 /\ has_active_incident(st.active, s))
    THEN st
    ELSE LET r == end_incident(st.active, st.files, s, now, write_ok(fault, s))
         IN  IF r.raised
             THEN [st EXCEPT !.active = r.active, !.files = r.files, !.raised = TRUE,
                             !.cause = "write"]
             ELSE [st EXCEPT !.active = r.active, !.files = r.files,
                             !.recoveries[s] = @ + 1,
                             !.notified[s] = Append(@, [kind |-> "recovery",
                                                        id |-> st.active[s].id]),
                             !.cause = IF delivery_failed(notifier_outcome(fault, s))
                                       THEN "send" ELSE @,
                             !.raised = send_recovery_raises(notifier_outcome(fault, s))]

RECURSIVE open_pass(_, _, _, _)
open_pass(st, failing, i, fault) ==
    IF i > Len(failing) THEN st
    ELSE open_pass(open_step(st, failing[i], fault), failing, i + 1, fault)

RECURSIVE close_pass(_, _, _)
close_pass(st, i, fault) ==
    IF i > Len(Services) THEN st
    ELSE close_pass(close_step(st, Services[i], fault), i + 1, fault)

\* _process_results without its second loop.
process_results_open_only(st, fault) ==
    open_pass(st, get_failing_services(consecutive_failures), 1, fault)

\* _process_results without its first loop.
process_results_close_only(st, fault) ==
    close_pass(st, 1, fault)

\* ASLMonitoringService._process_results
process_results(st, fault) ==
    close_pass(open_pass(st, get_failing_services(consecutive_failures), 1, fault), 1, fault)

Max(a, b) == IF a >= b THEN a ELSE b

\* The loop going on whatever the flag says.
loop_ignores_stop(run) == TRUE

\* _monitoring_loop: the condition of `while self.running`, read at the top
\* of each cycle.
loop_continues(run) == run

\* The sleep of the loop without its clamp at zero.
sleep_time_unclamped(elapsed) == CheckInterval - elapsed

\* _monitoring_loop: sleep_time = max(0, self.check_interval - elapsed)
sleep_time(elapsed) == Max(0, CheckInterval - elapsed)

\* --------------------------------------------- modules/alert_manager.py
\* The cooldown key of a partition: f"disk_{mountpoint}".
disk_key(mountpoint) == "disk_" \o mountpoint

\* The cooldown keys check_thresholds can use.
AlertKeys == {"cpu", "memory", "swap"} \cup {disk_key(Mountpoints[i]) : i \in 1..Len(Mountpoints)}

\* What check_thresholds reads from a snapshot, in the order it reads it:
\* metrics['cpu']['usage_percent'], metrics['memory']['usage_percent'],
\* metrics['memory']['swap_percent'] (None when the key is missing) and
\* each partition of metrics['disk']['partitions'].
Readings(metrics) ==
    <<[key |-> "cpu", type |-> "cpu", metric |-> "CPU Usage",
       value |-> metrics.cpu, threshold |-> CpuThreshold],
      [key |-> "memory", type |-> "memory", metric |-> "Memory Usage",
       value |-> metrics.memory, threshold |-> MemoryThreshold],
      [key |-> "swap", type |-> "swap", metric |-> "Swap Usage",
       value |-> metrics.swap, threshold |-> SwapThreshold]>>
    \o [i \in 1..Len(metrics.partitions) |->
           [key |-> disk_key(metrics.partitions[i].mountpoint), type |-> "disk",
            metric |-> "Disk Usage (" \o metrics.partitions[i].mountpoint \o ")",
            value |-> Some(metrics.partitions[i].usage_percent),
            threshold |-> DiskThreshold]]

\* _should_send_alert returning True without recording the time.
should_send_alert_unrecorded(last, alert_key, t) ==
    LET last_time == IF alert_key \in DOMAIN last THEN last[alert_key] ELSE 0
    IN  [last |-> last, send |-> t - last_time >= AlertCooldown]

\* What a webhook request can end in: a response that raise_for_status
\* accepts, or a requests.exceptions.RequestException (connection error,
\* timeout, HTTP error status).
WebhookOutcomes == {"ok", "request_error"}

\* AlertManager._send_slack_notification: both of its handlers print the
\* error and return.
manager_send_slack_notification(outcome) == [raised |-> FALSE]

\* AlertManager._should_send_alert at instant t: the answer and the
\* last_alert_time dict after the call.
should_send_alert(last, alert_key, t) ==
    LET last_time == IF alert_key \in DOMAIN last THEN last[alert_key] ELSE 0
    IN  IF t - last_time >= AlertCooldown
        THEN [last |-> (alert_key :> t) @@ last, send |-> TRUE]
        ELSE [last |-> last, send |-> FALSE]

\* check_step recording the instant of an alert the cooldown suppresses.
check_step_records_suppressed(acc, reading, t) ==
    IF reading.value # None /\ reading.value[1] > reading.threshold
    THEN LET r == should_send_alert(acc.last, reading.key, t)
         IN  IF r.send
             THEN [last |-> r.last,
                   alerts |-> Append(acc.alerts,
                                 [type |-> reading.type, metric |-> reading.metric,
                                  current_value |-> reading.value[1],
                                  threshold |-> reading.threshold]),
                   keys |-> Append(acc.keys, reading.key)]
             ELSE [acc EXCEPT !.last = (reading.key :> t) @@ @]
    ELSE acc

\* check_step comparing with >= where the code has >.
check_step_at_threshold(acc, reading, t) ==
    IF reading.value # None /\ reading.value[1] >= reading.threshold
    THEN LET r == should_send_alert(acc.last, reading.key, t)
         IN  IF r.send
             THEN [last |-> r.last,
                   alerts |-> Append(acc.alerts,
                                 [type |-> reading.type, metric |-> reading.metric,
                                  current_value |-> reading.value[1],
                                  threshold |-> reading.threshold]),
                   keys |-> Append(acc.keys, reading.key)]
             ELSE acc
    ELSE acc

\* check_thresholds, one metric: when the value is above its threshold and
\* _should_send_alert agrees, an alert is added to the list.
check_step(acc, reading, t) ==
    IF reading.value # None /\ reading.value[1] > reading.threshold
    THEN LET r == should_send_alert(acc.last, reading.key, t)
         IN  IF r.send
             THEN [last |-> r.last,
                   alerts |-> Append(acc.alerts,
                                 [type |-> reading.type, metric |-> reading.metric,
                                  current_value |-> reading.value[1],
                                  threshold |-> reading.threshold]),
                   keys |-> Append(acc.keys, reading.key)]
             ELSE acc
    ELSE acc

RECURSIVE check_pass(_, _, _, _)
check_pass(acc, readings, i, t) ==
    IF i > Len(readings) THEN acc
    ELSE check_pass(check_step(acc, readings[i], t), readings, i + 1, t)

\* _send_alert dropping the newest alerts where the code drops the oldest.
manager_send_alert_keeps_oldest(history, alert, t) ==
    LET h == Append(history, [alert EXCEPT !.timestamp = t])
    IN  IF Len(h) > HistoryLimit THEN SubSeq(h, 1, HistoryLimit) ELSE h

\* AlertManager._send_alert at instant t: the alert is stamped and appended,
\* and the history is cut to its last HistoryLimit entries.
manager_send_alert(history, alert, t) ==
    LET h == Append(history, [alert EXCEPT !.timestamp = t])
    IN  IF Len(h) > HistoryLimit
        THEN SubSeq(h, Len(h) - HistoryLimit + 1, Len(h))
        ELSE h

RECURSIVE send_pass(_, _, _, _)
send_pass(history, alerts, i, t) ==
    IF i > Len(alerts) THEN history
    ELSE send_pass(manager_send_alert(history, alerts[i], t), alerts, i + 1, t)

\* AlertManager.check_thresholds at instant t: the alerts it returns, the
\* cooldown keys they were accepted under, and the manager after the call.
check_thresholds(last, history, metrics, t) ==
    LET acc == check_pass([last |-> last, alerts |-> <<>>, keys |-> <<>>],
                          Readings(metrics), 1, t)
        stamped == [i \in 1..Len(acc.alerts) |->
                       [type |-> acc.alerts[i].type, metric |-> acc.alerts[i].metric,
                        current_value |-> acc.alerts[i].current_value,
                        threshold |-> acc.alerts[i].threshold,
                        timestamp |-> t]]
    IN  [last |-> acc.last,
         history |-> send_pass(history, stamped, 1, t),
         alerts |-> stamped,
         keys |-> acc.keys]

\* ------------------------------------------------------------- states
Init ==
    /\ now = 0
    /\ pc = "idle"
    /\ running = FALSE
    /\ cycle_start = 0
    /\ consecutive_failures = [s \in ServiceNames |-> 0]
    /\ last_check_result = [s \in ServiceNames |-> None]
    /\ results = <<>>
    /\ active_incidents = <<>>
    /\ files = <<>>
    /\ last_call = [op |-> "init", service |-> "", raised |-> FALSE, arg |-> ""]
    /\ opened = {}
    /\ issued = <<>>
    /\ ncalls = 0
    /\ streak_starts = [s \in ServiceNames |-> 0]
    /\ streak_alerts = [s \in ServiceNames |-> 0]
    /\ probed = <<>>
    /\ alert_at = [s \in ServiceNames |-> None]
    /\ recoveries = [s \in ServiceNames |-> 0]
    /\ alert_clock = ClockStart
    /\ last_alert_time = <<>>
    /\ alert_history = <<>>
    /\ emitted = <<>>
    /\ nchecks = 0
    /\ nadvances = 0
    /\ formatted = None
    /\ monitors = <<>>
    /\ failure_threshold = None
    /\ engine_results = <<>>
    /\ failing_ret = None
    /\ created = {}
    /\ app_pc = "idle"
    /\ is_running = FALSE
    /\ app_metrics = [total_checks |-> 0, successful_checks |-> 0, failed_checks |-> 0]
    /\ notified = [s \in ServiceNames |-> <<>>]
    /\ slack_delivery = "none"
    /\ memory_store = <<>>
    /\ last_notice = [s \in ServiceNames |-> "none"]

Called(op, service, raised) ==
    [op |-> op, service |-> service, raised |-> raised, arg |-> ""]

\* The same, with what the call was given or found.
CalledWith(op, service, raised, arg) ==
    [op |-> op, service |-> service, raised |-> raised, arg |-> arg]

\* ------------------------------------------- the monitoring service
\* ASLMonitoringService.start: set running and enter the loop.
Start ==
    /\ pc = "idle"
    /\ pc' = "top"
    /\ running' = TRUE
    /\ last_call' = Called("start", "", FALSE)
    /\ UNCHANGED <<now, cycle_start, engineVars, trackerVars, opened, issued, ncalls,
                   streakVars, obsVars, alertVars, restVars, created>>

\* ASLMonitoringService.stop: clear running.
Stop ==
    /\ running
    /\ running' = FALSE
    /\ last_call' = Called("stop", "", FALSE)
    /\ UNCHANGED <<now, pc, cycle_start, engineVars, trackerVars, opened, issued, ncalls,
                   streakVars, obsVars, alertVars, restVars, created>>

\* _monitoring_loop: `while self.running` read false.
LoopExit ==
    /\ pc = "top"
    /\ ~loop_continues(running)
    /\ pc' = "done"
    /\ last_call' = Called("loop_exit", "", FALSE)
    /\ UNCHANGED <<now, running, cycle_start, engineVars, trackerVars, opened, issued,
                   ncalls, streakVars, obsVars, alertVars, restVars, created>>

\* _monitoring_loop: cycle_start, then MonitoringEngine.check_all_services,
\* one check_health per monitor, the probes taking their time in turn.
CheckAllServices ==
    /\ pc = "top"
    /\ loop_continues(running)
    /\ \E plan \in [ServiceNames -> LoopProbes] :
        /\ \A s \in ServiceNames :
              plan[s].kind # "ok" => consecutive_failures[s] < MaxFailures
        /\ now + SumTicks(plan, Len(Services)) <= MaxTime
        /\ cycle_start' = now
        /\ now' = now + SumTicks(plan, Len(Services))
        /\ LET r == check_all_services([failures |-> consecutive_failures,
                                         last |-> last_check_result,
                                         results |-> <<>>,
                                         probed |-> <<>>], plan, 1)
           IN  /\ consecutive_failures' = r.failures
               /\ last_check_result' = r.last
               /\ results' = r.results
               /\ probed' = r.probed
        /\ streak_starts' =
              [s \in ServiceNames |-> IF plan[s].kind = "ok" THEN 0 ELSE streak_starts[s]]
        /\ streak_alerts' =
              [s \in ServiceNames |-> IF plan[s].kind = "ok" THEN 0 ELSE streak_alerts[s]]
    /\ pc' = "process"
    /\ last_call' = Called("check_all_services", "", FALSE)
    /\ UNCHANGED <<running, trackerVars, opened, issued, ncalls, alert_at, recoveries,
                   alertVars, restVars, created>>

\* _monitoring_loop: _process_results(results); an exception of a write or
\* of the notifier leaves the loop (start() catches KeyboardInterrupt only).
\* The step records what failed in the cycle: "write" for a record that
\* could not be written, "send" for a notification that was not delivered.
ProcessResults ==
    /\ pc = "process"
    /\ \E fault \in Faults :
        LET st == process_results([active |-> active_incidents, files |-> files,
                                   raised |-> FALSE, starts |-> streak_starts,
                                   alerts |-> streak_alerts, issued |-> issued,
                                   alert_at |-> alert_at, recoveries |-> recoveries,
                                   notified |-> notified, cause |-> ""], fault)
        IN  /\ active_incidents' = st.active
            /\ files' = st.files
            /\ streak_starts' = st.starts
            /\ streak_alerts' = st.alerts
            /\ issued' = st.issued
            /\ alert_at' = st.alert_at
            /\ recoveries' = st.recoveries
            /\ notified' = st.notified
            /\ pc' = IF st.raised THEN "crashed" ELSE "sleep"
            /\ last_call' = CalledWith("process_results", "", st.raised, st.cause)
    /\ UNCHANGED <<now, running, cycle_start, engineVars, opened, ncalls, probed,
                   alertVars, formatted, monitors, failure_threshold, engine_results,
                   failing_ret, created, appVars, slack_delivery, memory_store,
                   last_notice>>

\* _monitoring_loop: _log_status (a pure read), then sleep for what is left
\* of the interval.
Sleep ==
    /\ pc = "sleep"
    /\ LET elapsed == now - cycle_start
       IN  /\ now + sleep_time(elapsed) <= MaxTime
           /\ now' = now + sleep_time(elapsed)
           /\ last_call' = CalledWith("sleep", "", FALSE,
                                       IF sleep_time(elapsed) > 0 THEN "slept" ELSE "skipped")
    /\ pc' = "top"
    /\ probed' = <<>>
    /\ UNCHANGED <<running, cycle_start, engineVars, trackerVars, opened, issued, ncalls,
                   streakVars, alert_at, recoveries, alertVars, restVars, created>>

Next ==
    \/ Start
    \/ Stop
    \/ LoopExit
    \/ CheckAllServices
    \/ ProcessResults
    \/ Sleep

Spec == Init /\ [][Next]_vars

\* ------------------------------------- the tracker, called directly
\* The details a caller may pass.
DetailsSet ==
    {[error |-> Some("Timeout"), status_code |-> None, response_time |-> 0,
      consecutive_failures |-> FailureThreshold],
     [error |-> Some("Status code"), status_code |-> Some(BadStatus), response_time |-> 0,
      consecutive_failures |-> FailureThreshold]}

\* A call of IncidentTracker.start_incident.
StartIncident(s, details, ok) ==
    /\ ncalls < MaxCalls
    /\ LET r == start_incident(active_incidents, files, s, details, now, ok)
       IN  /\ active_incidents' = r.active
           /\ files' = r.files
           /\ issued' = IF r.raised THEN issued ELSE Issue(issued, r.id)
           /\ created' = IF r.raised THEN created
                          ELSE created \cup {[id |-> r.id, service |-> s, start_time |-> now]}
           /\ last_call' = CalledWith("start_incident", s, r.raised,
                                       IF has_active_incident(active_incidents, s)
                                       THEN "active" ELSE "inactive")
    /\ opened' = opened \cup {s}
    /\ ncalls' = ncalls + 1
    /\ UNCHANGED <<now, loopVars, engineVars, streakVars, obsVars, alertVars, restVars>>

\* A call of IncidentTracker.end_incident.
EndIncident(s, ok) ==
    /\ ncalls < MaxCalls
    /\ LET r == end_incident(active_incidents, files, s, now, ok)
       IN  /\ active_incidents' = r.active
           /\ files' = r.files
           /\ last_call' = CalledWith("end_incident", s, r.raised,
                                       IF has_active_incident(active_incidents, s)
                                       THEN "active" ELSE "inactive")
    /\ opened' = opened \ {s}
    /\ ncalls' = ncalls + 1
    /\ UNCHANGED <<now, loopVars, engineVars, issued, streakVars, obsVars, alertVars, restVars, created>>

\* The orders in which os.listdir can give the files of the directory.
Listings(dir) ==
    {l \in [1..Cardinality(DOMAIN dir) -> DOMAIN dir] :
        \A i, j \in 1..Cardinality(DOMAIN dir) : l[i] = l[j] => i = j}

\* A call of IncidentTracker.get_incident_history.
GetIncidentHistory(limit, listing) ==
    /\ ncalls < MaxCalls
    /\ last_call' = CalledWith("get_incident_history", "", FALSE,
                                [limit |-> limit,
                                 ret |-> get_incident_history(files, listing, limit)])
    /\ ncalls' = ncalls + 1
    /\ UNCHANGED <<now, loopVars, engineVars, trackerVars, opened, issued, streakVars,
                   obsVars, alertVars, restVars, created>>

\* Time passes between two calls.
Tick ==
    /\ now < MaxTrackerTime
    /\ now' = now + 1
    /\ last_call' = Called("tick", "", FALSE)
    /\ UNCHANGED <<loopVars, engineVars, trackerVars, opened, issued, ncalls, streakVars, obsVars, alertVars, restVars, created>>

NextTracker ==
    \/ \E s \in ServiceNames, details \in DetailsSet, write_fails \in BOOLEAN :
          StartIncident(s, details, ~write_fails)
    \/ \E s \in ServiceNames, write_fails \in BOOLEAN : EndIncident(s, ~write_fails)
    \/ \E limit \in 0..MaxCalls, listing \in Listings(files) :
          GetIncidentHistory(limit, listing)
    \/ Tick

SpecTracker == Init /\ [][NextTracker]_vars

\* ------------------------------------ one monitor, called directly
\* A call of ServiceMonitor.check_health, whatever the probe ends in.
CheckHealth(s, probe) ==
    /\ probe.kind # "ok" => consecutive_failures[s] < MaxFailures
    /\ LET r == check_health(consecutive_failures[s], probe)
       IN  /\ consecutive_failures' = [consecutive_failures EXCEPT ![s] = r.consecutive_failures]
           /\ last_check_result' = [last_check_result EXCEPT ![s] = Some(r.result)]
    /\ last_call' = CalledWith("check_health", s, FALSE, probe.kind)
    /\ UNCHANGED <<now, loopVars, results, trackerVars, opened, issued, ncalls, streakVars, obsVars, alertVars, restVars, created>>

NextMonitor == \E s \in ServiceNames, probe \in Probes : CheckHealth(s, probe)

SpecMonitor == Init /\ [][NextMonitor]_vars

\* ------------------------------- the alert manager, called directly
\* The snapshot in which the metrics of the keys in `above` are one point
\* above their thresholds and all the others are exactly at theirs.
SnapshotOf(above) ==
    [cpu |-> Some(IF "cpu" \in above THEN CpuThreshold + 1 ELSE CpuThreshold),
     memory |-> Some(IF "memory" \in above THEN MemoryThreshold + 1 ELSE MemoryThreshold),
     swap |-> Some(IF "swap" \in above THEN SwapThreshold + 1 ELSE SwapThreshold),
     partitions |->
        [i \in 1..Len(Mountpoints) |->
            [mountpoint |-> Mountpoints[i],
             usage_percent |-> IF disk_key(Mountpoints[i]) \in above
                               THEN DiskThreshold + 1 ELSE DiskThreshold]]]

\* A snapshot without any of the metrics check_thresholds looks at.
EmptySnapshot == [cpu |-> None, memory |-> None, swap |-> None, partitions |-> <<>>]

\* The snapshots explored: nothing above its threshold, one metric above,
\* every metric above, and the empty snapshot.
Snapshots ==
    {SnapshotOf(above) : above \in {{}, AlertKeys} \cup {{k} : k \in AlertKeys}}
    \cup {EmptySnapshot}

\* The new entries of the log of emitted alerts.
Emit(log, keys, alerts, t) ==
    log \o [i \in 1..Len(alerts) |-> [key |-> keys[i], at |-> t, alert |-> alerts[i]]]

\* A call of AlertManager.check_thresholds.
CheckThresholds(metrics) ==
    /\ nchecks < MaxChecks
    /\ LET r == check_thresholds(last_alert_time, alert_history, metrics, alert_clock)
       IN  /\ last_alert_time' = r.last
           /\ alert_history' = r.history
           /\ emitted' = Emit(emitted, r.keys, r.alerts, alert_clock)
    /\ nchecks' = nchecks + 1
    /\ last_call' = CalledWith("check_thresholds", "", FALSE, metrics)
    /\ UNCHANGED <<now, loopVars, engineVars, trackerVars, opened, issued, ncalls,
                   streakVars, obsVars, alert_clock, nadvances, restVars, created>>

\* Time passes between two calls: a second, or one second less than the
\* cooldown.
AdvanceClock(d) ==
    /\ nadvances < MaxAdvances
    /\ alert_clock' = alert_clock + d
    /\ nadvances' = nadvances + 1
    /\ last_call' = Called("advance_clock", "", FALSE)
    /\ UNCHANGED <<now, loopVars, engineVars, trackerVars, opened, issued, ncalls,
                   streakVars, obsVars, last_alert_time, alert_history, emitted, nchecks, restVars, created>>

NextAlerts ==
    \/ \E metrics \in Snapshots : CheckThresholds(metrics)
    \/ \E d \in {1, AlertCooldown - 1} : AdvanceClock(d)

SpecAlerts == Init /\ [][NextAlerts]_vars

\* ------------------------------------ the alert history, alert by alert
\* A call of AlertManager._send_alert with a CPU alert, one second after
\* the previous one.
SendAlert ==
    /\ Len(emitted) < MaxEmitted
    /\ LET alert == [type |-> "cpu", metric |-> "CPU Usage",
                     current_value |-> CpuThreshold + 1, threshold |-> CpuThreshold,
                     timestamp |-> alert_clock]
       IN  /\ alert_history' = manager_send_alert(alert_history, alert, alert_clock)
           /\ emitted' = Emit(emitted, <<"cpu">>, <<alert>>, alert_clock)
    /\ alert_clock' = alert_clock + 1
    /\ last_call' = Called("send_alert", "", FALSE)
    /\ UNCHANGED <<now, loopVars, engineVars, trackerVars, opened, issued, ncalls,
                   streakVars, obsVars, last_alert_time, nchecks, nadvances, restVars, created>>

NextHistory == SendAlert

SpecHistory == Init /\ [][NextHistory]_vars

\* --------------------------- an engine built from any configuration
\* The entries of config['services'] explored: two complete ones, one
\* without a name and one without a url.
ApiTarget == [name |-> Some("api"), url |-> Some("http://api/health")]
DbTarget == [name |-> Some("db"), url |-> Some("http://db/health")]
NamelessTarget == [name |-> None, url |-> Some("http://cache/health")]
UrllessTarget == [name |-> Some("db"), url |-> None]
SecondApiTarget == [name |-> Some("api"), url |-> Some("http://api2/health")]

\* The configurations explored.
Configs ==
    {<<ApiTarget>>,
     <<ApiTarget, DbTarget>>,
     <<ApiTarget, SecondApiTarget>>,
     <<NamelessTarget, DbTarget>>,
     <<ApiTarget, UrllessTarget>>}

\* The values of config['monitoring']['failure_threshold'] explored.
ThresholdInputs == (-1)..FailureThreshold

\* MonitoringEngine(services_config, failure_threshold), as
\* ASLMonitoringService.__init__ calls it.
Construct(config, threshold) ==
    /\ failure_threshold = None
    /\ LET e == engine_init(config, threshold)
       IN  /\ monitors' = e.monitors
           /\ failure_threshold' = e.failure_threshold
           /\ last_call' = Called("construct", "", e.raised)
    /\ UNCHANGED <<now, loopVars, engineVars, trackerVars, opened, issued, ncalls,
                   streakVars, obsVars, alertVars, formatted, engine_results,
                   failing_ret, created, moreVars>>

\* A cycle's call of check_all_services on that engine.
EngineCheckAll ==
    /\ failure_threshold # None
    /\ \E plan \in [1..Len(monitors) -> LoopProbes] :
        /\ \A i \in 1..Len(monitors) :
              effective_probe(monitors[i], plan[i]).kind # "ok"
                  => monitors[i].consecutive_failures < MaxFailures
        /\ LET r == engine_check_all([monitors |-> monitors, results |-> <<>>], plan, 1)
           IN  /\ monitors' = r.monitors
               /\ engine_results' = r.results
    /\ last_call' = Called("check_all_services", "", FALSE)
    /\ UNCHANGED <<now, loopVars, engineVars, trackerVars, opened, issued, ncalls,
                   streakVars, obsVars, alertVars, formatted, failure_threshold,
                   failing_ret, created, moreVars>>

\* A call of get_failing_services on that engine.
EngineGetFailing ==
    /\ failure_threshold # None
    /\ failing_ret' = Some(engine_get_failing(monitors, failure_threshold[1]))
    /\ last_call' = Called("get_failing_services", "", FALSE)
    /\ UNCHANGED <<now, loopVars, engineVars, trackerVars, opened, issued, ncalls,
                   streakVars, obsVars, alertVars, formatted, monitors,
                   failure_threshold, engine_results, created, moreVars>>

NextEngine ==
    \/ \E config \in Configs, threshold \in ThresholdInputs : Construct(config, threshold)
    \/ EngineCheckAll
    \/ EngineGetFailing

SpecEngine == Init /\ [][NextEngine]_vars

\* ------------------------------------ _format_duration, called directly
\* A call of SlackNotifier._format_duration on a non-negative duration.
FormatDuration(ticks) ==
    /\ formatted = None
    /\ formatted' = Some(format_duration(ticks))
    /\ last_call' = CalledWith("format_duration", "", FALSE, ticks)
    /\ UNCHANGED <<now, loopVars, engineVars, trackerVars, opened, issued, ncalls,
                   streakVars, obsVars, alertVars, monitors, failure_threshold,
                   engine_results, failing_ret, created, moreVars>>

NextFormat == \E ticks \in 0..MaxDurationTicks : FormatDuration(ticks)

SpecFormat == Init /\ [][NextFormat]_vars

\* =============================================================== claims

\* The ids of the incidents of service s that have status 'active', in the
\* tracker's memory or in the incidents directory.
ActiveIdsOf(s) ==
    {id \in DOMAIN files : files[id].service = s /\ files[id].status = "active"}
    \cup (IF s \in DOMAIN active_incidents /\ active_incidents[s].status = "active"
          THEN {active_incidents[s].id} ELSE {})

\* C1: within one run of the service, every service has at most one
\* incident with status 'active', counting the in-memory active set and
\* the persisted records together.
C1_AtMostOneActivePerTarget ==
    \A s \in ServiceNames : Cardinality(ActiveIdsOf(s)) <= 1

\* C1's case: a service whose earlier incident is stored resolved has a
\* second incident active.
C1_Witness ==
    \E s \in DOMAIN active_incidents :
        \E id \in DOMAIN files :
            /\ files[id].service = s
            /\ files[id].status = "resolved"
            /\ id # active_incidents[s].id
            /\ active_incidents[s].status = "active"

C3_ResetOrIncrement ==
    [][\A s \in ServiceNames :
          (last_call'.op = "check_health" /\ last_call'.service = s)
              => consecutive_failures'[s] =
                    IF last_call'.arg = "ok" THEN 0 ELSE consecutive_failures[s] + 1]_vars

\* C3's case: a success has reset a counter that another monitor shows can
\* be above 1, and a failure of each kind has been counted.
C3_Witness ==
    /\ last_call.op = "check_health"
    /\ last_call.arg = "other_error"
    /\ consecutive_failures[last_call.service] = MaxFailures
    /\ \E s \in ServiceNames :
          /\ s # last_call.service
          /\ consecutive_failures[s] = 0
          /\ last_check_result[s] # None

\* C4: before its first check a monitor has consecutive_failures 0 and no
\* last_check_result; afterwards consecutive_failures is 0 exactly when
\* last_check_result.success is true.
C4_ZeroIffLastSuccess ==
    \A s \in ServiceNames :
        IF last_check_result[s] = None
        THEN consecutive_failures[s] = 0
        ELSE (consecutive_failures[s] = 0) <=> last_check_result[s][1].success

\* C4's case: one monitor failed its latest check, another succeeded its
\* latest check after having run.
C4_Witness ==
    \E s, u \in ServiceNames :
        /\ last_check_result[s] # None
        /\ ~last_check_result[s][1].success
        /\ consecutive_failures[s] > 1
        /\ last_check_result[u] # None
        /\ last_check_result[u][1].success

\* C5: after any sequence of start_incident and end_incident calls,
\* has_active_incident(s) is true exactly when start_incident(s) has been
\* called with no end_incident(s) call since, and get_active_incident(s)
\* returns an incident exactly then.
C5_ActiveIffStartedAndNotEnded ==
    \A s \in ServiceNames :
        /\ has_active_incident(active_incidents, s) <=> s \in opened
        /\ (get_active_incident(active_incidents, s) # None) <=> s \in opened

\* C6: start_incident for a service that already has an active incident
\* does not raise, keeps the active incident as it is and creates or changes
\* no stored record.
C6_StartWhileActiveIsNoOp ==
    [][\A s \in ServiceNames :
          (/\ last_call'.op = "start_incident"
           /\ last_call'.service = s
           /\ has_active_incident(active_incidents, s))
              => (/\ ~last_call'.raised
                  /\ active_incidents' = active_incidents
                  /\ files' = files)]_vars

C8_WrittenBeforeActiveSet ==
    [][\A s \in ServiceNames :
          /\ (/\ last_call'.op = "start_incident"
              /\ last_call'.service = s
              /\ s \in DOMAIN active_incidents')
                 => (/\ active_incidents'[s].id \in DOMAIN files'
                     /\ files'[active_incidents'[s].id] = active_incidents'[s])
          /\ (/\ last_call'.op = "end_incident"
              /\ last_call'.service = s
              /\ s \in DOMAIN active_incidents
              /\ s \notin DOMAIN active_incidents')
                 => (/\ active_incidents[s].id \in DOMAIN files'
                     /\ files'[active_incidents[s].id].status = "resolved")]_vars

\* C9: a stored record with status 'resolved' is never overwritten or
\* changed by a later start_incident or end_incident call.
C9_ResolvedNeverOverwritten ==
    [][\A id \in DOMAIN files :
          files[id].status = "resolved"
              => (id \in DOMAIN files' /\ files'[id] = files[id])]_vars

\* C10: no two start_incident calls that created an incident returned the
\* same id.
C10_IdsUnique ==
    \A id \in DOMAIN issued : issued[id] <= 1

\* C11: a record that cannot be written, when an incident is opened or
\* closed, does not abort the monitoring cycle: the processing of the cycle
\* returns and the loop goes on to its sleep.
C11_WriteFailureDoesNotAbortCycle ==
    (last_call.op = "process_results" /\ last_call.arg = "write") => pc = "sleep"

\* C12: a notification that is not delivered, whatever made send_alert or
\* send_recovery fail, is not propagated to the monitoring loop: the
\* processing of the cycle returns and the loop goes on to its sleep.
C12_DeliveryFailureNotPropagated ==
    (last_call.op = "process_results" /\ last_call.arg = "send") => pc = "sleep"

\* C13: check_all_services has run check_health exactly once on every
\* configured monitor, in configuration order, and has returned a result
\* for each of them, whatever the probes ended in.
C13_EveryMonitorProbedOnceInOrder ==
    pc = "process"
        => /\ probed = Services
           /\ DOMAIN results = ServiceNames
           /\ \A s \in ServiceNames : last_check_result[s] = Some(results[s])

\* C13's case: the probe of the first monitor failed, the monitors after it
\* were probed all the same, and one of them succeeded.
C13_Witness ==
    /\ pc = "process"
    /\ ~results[Services[1]].success
    /\ probed = Services
    /\ results[Services[Len(Services)]].success

IncidentRecords ==
    {files[id] : id \in DOMAIN files}
    \cup {active_incidents[s] : s \in DOMAIN active_incidents}

EmittedAt(log, k) == {log[i].at : i \in {j \in 1..Len(log) : log[j].key = k}}

SetMax(S) == CHOOSE x \in S : \A y \in S : y <= x

\* C14: for each metric present in the snapshot (cpu, memory, swap and
\* each partition under its own key), check_thresholds emits exactly one
\* alert, carrying the value, if the value is strictly above its threshold
\* and either no alert was emitted under that key before or at least
\* alert_cooldown seconds have passed since the last one; otherwise it
\* emits none under that key, in particular at a value equal to the
\* threshold.
C14_OneAlertPerKeyAboveThresholdAfterCooldown ==
    [][last_call'.op = "check_thresholds"
          => LET readings == Readings(last_call'.arg)
                 new == SubSeq(emitted', Len(emitted) + 1, Len(emitted'))
             IN  /\ \A i \in 1..Len(readings) :
                       LET k == readings[i].key
                           mine == {j \in 1..Len(new) : new[j].key = k}
                           before == EmittedAt(emitted, k)
                           due == /\ readings[i].value # None
                                  /\ readings[i].value[1] > readings[i].threshold
                                  /\ \/ before = {}
                                     \/ alert_clock - SetMax(before) >= AlertCooldown
                       IN  IF due
                           THEN /\ Cardinality(mine) = 1
                                /\ \A j \in mine :
                                      /\ new[j].at = alert_clock
                                      /\ new[j].alert.type = readings[i].type
                                      /\ new[j].alert.current_value = readings[i].value[1]
                           ELSE mine = {}
                 /\ \A j \in 1..Len(new) :
                       \E i \in 1..Len(readings) : readings[i].key = new[j].key]_vars

\* C14's case: a call has just emitted the second CPU alert exactly
\* alert_cooldown seconds after the first one, while memory, swap and the
\* partitions, all exactly at their thresholds, have never raised an alert.
C14_Witness ==
    /\ last_call.op = "check_thresholds"
    /\ last_call.arg = SnapshotOf({"cpu"})
    /\ EmittedAt(emitted, "cpu") = {alert_clock - AlertCooldown, alert_clock}
    /\ \A k \in AlertKeys \ {"cpu"} : EmittedAt(emitted, k) = {}

\* C15: with the clock never going back, any two alerts emitted under the
\* same cooldown key are at least alert_cooldown seconds apart, and the
\* cooldown of a key runs from the last alert of that key alone, whatever
\* was emitted under the other keys.
C15_SameKeyAlertsCooldownApart ==
    /\ \A i, j \in 1..Len(emitted) :
          (i < j /\ emitted[i].key = emitted[j].key)
              => emitted[j].at - emitted[i].at >= AlertCooldown
    /\ \A k \in AlertKeys :
          IF EmittedAt(emitted, k) = {}
          THEN k \notin DOMAIN last_alert_time
          ELSE /\ k \in DOMAIN last_alert_time
               /\ last_alert_time[k] = SetMax(EmittedAt(emitted, k))

\* C15's case: a CPU alert, a memory alert a second later, and the next
\* CPU alert exactly alert_cooldown seconds after the first one, while the
\* cooldown of the memory key is still running.
C15_Witness ==
    \E i, j, k \in 1..Len(emitted) :
        /\ i < j /\ j < k
        /\ emitted[i].key = "cpu"
        /\ emitted[j].key = "memory"
        /\ emitted[k].key = "cpu"
        /\ emitted[j].at > emitted[i].at
        /\ emitted[k].at = emitted[i].at + AlertCooldown
        /\ emitted[k].at - emitted[j].at < AlertCooldown

\* C17: alert_history never holds more than 1000 records and equals the
\* most recent min(n, 1000) of the n alerts emitted, in emission order.
C17_HistoryIsLastThousandEmitted ==
    LET n == Len(emitted)
        kept == IF n < HistoryLimit THEN n ELSE HistoryLimit
    IN  /\ Len(alert_history) <= HistoryLimit
        /\ Len(alert_history) = kept
        /\ \A i \in 1..kept : alert_history[i] = emitted[n - kept + i].alert

\* C17's case: more alerts were emitted than the history keeps, and the
\* oldest of them is gone from the history.
C17_Witness ==
    /\ Len(emitted) > HistoryLimit
    /\ Len(alert_history) = HistoryLimit
    /\ alert_history[1] # emitted[1].alert
    /\ alert_history[HistoryLimit] = emitted[Len(emitted)].alert

\* C21: for a non-negative duration of s seconds, _format_duration returns
\* floor(s) and 's' when s < 60, floor(s / 60) 'm' and floor(s mod 60) 's'
\* when 60 <= s < 3600, and floor(s / 3600) 'h' and floor((s mod 3600) / 60)
\* 'm' from 3600 on; 30 gives '30s', 90 gives '1m 30s', 3665 gives '1h 1m'.
C21_FormatDurationFloors ==
    /\ last_call.op = "format_duration"
          => LET ticks == last_call.arg
                 whole == ticks \div TicksPerSecond
                 text == formatted[1]
             IN  /\ whole < 60 => text = ToString(whole) \o "s"
                 /\ (60 <= whole /\ whole < 3600)
                       => text = ToString(whole \div 60) \o "m "
                                     \o ToString(whole - 60 * (whole \div 60)) \o "s"
                 /\ whole >= 3600
                       => text = ToString(whole \div 3600) \o "h "
                                     \o ToString((whole - 3600 * (whole \div 3600)) \div 60)
                                     \o "m"
    /\ format_duration(30 * TicksPerSecond) = "30s"
    /\ format_duration(90 * TicksPerSecond) = "1m 30s"
    /\ format_duration(3665 * TicksPerSecond) = "1h 1m"

\* C21's case: a duration of an hour, a minute, five seconds and a half has
\* just been formatted.
C21_Witness ==
    /\ last_call.op = "format_duration"
    /\ last_call.arg = 3665 * TicksPerSecond + 1
    /\ formatted = Some("1h 1m")

C23_StopReadAtTopOnly ==
    /\ [][/\ last_call'.op = "check_all_services" => running
          /\ (pc = "top" /\ ~running /\ pc' # pc) => pc' = "done"
          /\ (pc \in {"process", "sleep"} /\ running' # running) => pc' = pc
          /\ pc = "done" => pc' = "done"]_vars
    /\ [](pc = "process" => ENABLED ProcessResults)
    /\ []((pc = "top" /\ ~running) => ENABLED LoopExit)

\* C23's case: stop() was called while a cycle was in progress, and the
\* cycle has gone on to open an incident and send its alert.
C23_Witness ==
    /\ ~running
    /\ last_call.op = "process_results"
    /\ pc = "sleep"
    /\ \E s \in DOMAIN active_incidents :
          active_incidents[s].start_time = now /\ alert_at[s] = Some(now)

\* C24: in every cycle the incidents are opened and closed, and the
\* notifications sent, only after the probes of all the services of that
\* cycle are done: the processing step finds every monitor probed in this
\* cycle, each with the counter and the result its own probe produced, and
\* opens and closes by these; no other step of the loop touches incidents.
C24_ProcessingAfterAllProbes ==
    [][/\ last_call'.op = "process_results"
            => /\ pc = "process"
               /\ probed = Services
               /\ \A s \in ServiceNames :
                     /\ last_check_result[s] = Some(results[s])
                     /\ results[s].success = (consecutive_failures[s] = 0)
                     /\ (s \notin DOMAIN active_incidents /\ s \in DOMAIN active_incidents')
                           => (/\ ~results[s].success
                               /\ consecutive_failures[s] >= FailureThreshold)
                     /\ (s \in DOMAIN active_incidents /\ s \notin DOMAIN active_incidents')
                           => results[s].success
       /\ last_call'.op # "process_results"
            => /\ active_incidents' = active_incidents
               /\ files' = files
               /\ alert_at' = alert_at
               /\ recoveries' = recoveries]_vars

\* C24's case: in one cycle the last monitor's probe succeeded and the
\* first one's failed; the processing has just closed the incident of the
\* one and opened the incident of the other.
C24_Witness ==
    /\ last_call.op = "process_results"
    /\ pc = "sleep"
    /\ probed = Services
    /\ Services[1] \in DOMAIN active_incidents
    /\ active_incidents[Services[1]].start_time = now
    /\ Services[Len(Services)] \notin DOMAIN active_incidents
    /\ \E id \in DOMAIN files :
          /\ files[id].service = Services[Len(Services)]
          /\ files[id].end_time = Some(now)

\* C25: within one engine no two monitors have the same name, so that the
\* mapping check_all_services returns has exactly one entry per configured
\* service, each entry being the result of that service's own probe.
C25_OneResultPerMonitor ==
    /\ \A i, j \in 1..Len(monitors) :
          monitors[i].name = monitors[j].name => i = j
    /\ last_call.op = "check_all_services"
          => /\ Cardinality(DOMAIN engine_results) = Len(monitors)
             /\ \A i \in 1..Len(monitors) :
                   engine_results[monitors[i].name] = monitors[i].last_check_result[1]

\* The configuration the engine was built from is valid: failure_threshold
\* is at least 1 and every monitor has a name and a url.
ValidConfiguration ==
    /\ failure_threshold # None
    /\ failure_threshold[1] >= 1
    /\ \A i \in 1..Len(monitors) : monitors[i].name # None /\ monitors[i].url # None

\* C26: a configuration with an invalid failure_threshold or with a target
\* lacking its name or its url is rejected at construction: no cycle ever
\* runs under such a configuration.
C26_NoCycleUnderInvalidConfiguration ==
    last_call.op \in {"check_all_services", "get_failing_services"} => ValidConfiguration

\* C27: get_failing_services returns exactly the monitors whose
\* consecutive_failures is at or above failure_threshold, each once, in
\* configuration order, and changes no monitor.
C27_FailingServicesExactInOrder ==
    [][last_call'.op = "get_failing_services"
          => LET ret == failing_ret'[1]
             IN  /\ monitors' = monitors
                 /\ failure_threshold' = failure_threshold
                 /\ engine_results' = engine_results
                 /\ \A k \in 1..Len(ret) : ret[k] \in 1..Len(monitors)
                 /\ \A k, l \in 1..Len(ret) : k < l => ret[k] < ret[l]
                 /\ {ret[k] : k \in 1..Len(ret)} =
                       {i \in 1..Len(monitors) :
                           monitors[i].consecutive_failures >= failure_threshold[1]}]_vars

\* C27's case: with a threshold of 2 both monitors have failed at least
\* twice, the second more often than the first, and get_failing_services
\* has just returned the first and then the second.
C27_Witness ==
    /\ last_call.op = "get_failing_services"
    /\ failure_threshold = Some(FailureThreshold)
    /\ Len(monitors) = 2
    /\ monitors[1].consecutive_failures = FailureThreshold
    /\ monitors[2].consecutive_failures > FailureThreshold
    /\ failing_ret = Some(<<1, 2>>)

\* C28: get_incident_history(limit), for any limit >= 0 and n stored
\* incidents, returns min(limit, n) of them, each once, active and resolved
\* alike, in non-increasing start_time order, none of those left out being
\* later than one returned; it changes neither the stored records nor the
\* active set.
C28_HistoryLatestFirst ==
    [][last_call'.op = "get_incident_history"
          => LET limit == last_call'.arg.limit
                 ret == last_call'.arg.ret
                 n == Cardinality(DOMAIN files)
                 returned == {ret[k].id : k \in 1..Len(ret)}
             IN  /\ Len(ret) = IF limit < n THEN limit ELSE n
                 /\ \A k \in 1..Len(ret) :
                       ret[k].id \in DOMAIN files /\ ret[k] = files[ret[k].id]
                 /\ \A k, l \in 1..Len(ret) : k < l => ret[k].id # ret[l].id
                 /\ \A k, l \in 1..Len(ret) :
                       k < l => ret[k].start_time >= ret[l].start_time
                 /\ \A id \in DOMAIN files \ returned :
                       \A k \in 1..Len(ret) : files[id].start_time <= ret[k].start_time
                 /\ files' = files
                 /\ active_incidents' = active_incidents]_vars

\* C28's case: of two stored incidents, the earlier one resolved and the
\* later one active, get_incident_history(1) has just returned the later.
C28_Witness ==
    /\ last_call.op = "get_incident_history"
    /\ last_call.arg.limit = 1
    /\ Len(last_call.arg.ret) = 1
    /\ last_call.arg.ret[1].status = "active"
    /\ \E id \in DOMAIN files :
          /\ files[id].status = "resolved"
          /\ files[id].start_time < last_call.arg.ret[1].start_time

\* C29: every incident that a start_incident call created, closed since or
\* not, is returned by get_incident_history with its id, its service and
\* its start_time.
C29_EveryCreatedIncidentReadBack ==
    \A c \in created :
        \A listing \in Listings(files) :
            LET history == get_incident_history(files, listing, Cardinality(DOMAIN files))
            IN  \E k \in 1..Len(history) :
                    /\ history[k].id = c.id
                    /\ history[k].service = c.service
                    /\ history[k].start_time = c.start_time

\* A call of ServiceMonitor.check_health, counted among the calls made on
\* the targets.
ProbeTarget(s, probe) ==
    /\ ncalls < MaxCalls
    /\ LET r == check_health(consecutive_failures[s], probe)
       IN  /\ consecutive_failures' = [consecutive_failures EXCEPT ![s] = r.consecutive_failures]
           /\ last_check_result' = [last_check_result EXCEPT ![s] = Some(r.result)]
    /\ last_call' = CalledWith("check_health", s, FALSE, probe.kind)
    /\ ncalls' = ncalls + 1
    /\ UNCHANGED <<now, loopVars, results, trackerVars, opened, issued, streakVars,
                   obsVars, alertVars, restVars, created>>

\* Probes, incident opens and incident closes on the targets, in any order.
NextTargets ==
    \/ \E s \in ServiceNames, probe \in LoopProbes : ProbeTarget(s, probe)
    \/ \E s \in ServiceNames, details \in DetailsSet, write_fails \in BOOLEAN :
          StartIncident(s, details, ~write_fails)
    \/ \E s \in ServiceNames, write_fails \in BOOLEAN : EndIncident(s, ~write_fails)
    \/ Tick

SpecTargets == Init /\ [][NextTargets]_vars

\* The stored records of one target.
RecordsOf(dir, s) == {id \in DOMAIN dir : dir[id].service = s}

\* C30: a probe result, an incident open or an incident close for one target
\* leaves the consecutive_failures, the last check result, the
\* active-incident entry and the stored records of every other target as
\* they were.
C30_TargetsIndependent ==
    [][last_call'.op \in {"check_health", "start_incident", "end_incident"}
          => \A other \in ServiceNames \ {last_call'.service} :
                /\ consecutive_failures'[other] = consecutive_failures[other]
                /\ last_check_result'[other] = last_check_result[other]
                /\ (other \in DOMAIN active_incidents') = (other \in DOMAIN active_incidents)
                /\ other \in DOMAIN active_incidents
                      => active_incidents'[other] = active_incidents[other]
                /\ RecordsOf(files', other) = RecordsOf(files, other)
                /\ \A id \in RecordsOf(files, other) : files'[id] = files[id]]_vars

\* C30's case: "api" has failed a probe and has an active incident and a
\* stored record, and an incident of "db" has just been closed.
C30_Witness ==
    /\ last_call.op = "end_incident"
    /\ last_call.service = "db"
    /\ ~last_call.raised
    /\ last_call.arg = "active"
    /\ consecutive_failures["api"] > 0
    /\ last_check_result["api"] # None
    /\ "api" \in DOMAIN active_incidents
    /\ RecordsOf(files, "api") # {}
    /\ RecordsOf(files, "db") # {}

\* C31: check_health never raises; it returns success exactly when a
\* response came with the expected status code; a mismatched status, a
\* timeout, a connection error and any other exception each give a failure
\* with a non-empty error; the result returned is stored as
\* last_check_result.
C31_CheckHealthReportsEveryOutcome ==
    [][last_call'.op = "check_health"
          => LET stored == last_check_result'[last_call'.service]
             IN  /\ ~last_call'.raised
                 /\ stored # None
                 /\ stored[1].success = (last_call'.arg = "ok")
                 /\ stored[1].success = (stored[1].status_code = Some(ExpectedStatus))
                 /\ stored[1].success => stored[1].error = None
                 /\ ~stored[1].success
                       => stored[1].error # None /\ stored[1].error[1] # ""]_vars

\* C31's case: a probe that ended in an exception other than a timeout or
\* a connection error has been stored as a failure without a status code.
C31_Witness ==
    /\ last_call.op = "check_health"
    /\ last_call.arg = "other_error"
    /\ last_check_result[last_call.service] # None
    /\ ~last_check_result[last_call.service][1].success
    /\ last_check_result[last_call.service][1].status_code = None

\* ------------------------------------------------------------- app.py
\* send_notification letting the request error through to its caller.
send_notification_raises(outcome) ==
    [returned |-> outcome = "ok", raised |-> outcome # "ok"]

\* app.SlackNotifier.send_notification: what it returns, and whether it
\* raised.
send_notification(outcome) ==
    [returned |-> outcome = "ok", raised |-> FALSE]

\* app.ASLMonitor.check_asl_system: the metrics after the check and what it
\* returns; `fails` is an exception in its body, taken by its handler.
check_asl_system(m, fails) ==
    IF fails
    THEN [metrics |-> [m EXCEPT !.failed_checks = @ + 1], healthy |-> FALSE]
    ELSE [metrics |-> [m EXCEPT !.total_checks = @ + 1, !.successful_checks = @ + 1],
          healthy |-> TRUE]

\* What a notification step leaves in last_call.
Notified(kind, outcome, r) ==
    CalledWith("send_notification", "", r.raised,
               [kind |-> kind, outcome |-> outcome, returned |-> r.returned])

\* ASLMonitor.start_monitoring up to its loop: the startup notification is
\* sent outside the try block, so an exception from it leaves the method.
StartMonitoring(outcome) ==
    /\ app_pc = "idle"
    /\ is_running' = TRUE
    /\ LET r == send_notification(outcome)
       IN  /\ app_pc' = IF r.raised THEN "crashed" ELSE "loop"
           /\ last_call' = Notified("startup", outcome, r)
    /\ UNCHANGED <<now, loopVars, engineVars, trackerVars, opened, issued, ncalls,
                   streakVars, obsVars, alertVars, formatted, monitors, failure_threshold,
                   engine_results, failing_ret, created, app_metrics, notified, slack_delivery,
                   memory_store, last_notice>>

\* One turn of the loop of start_monitoring: the check, the error
\* notification of a failed check, the sleep. An exception in the turn is
\* taken by the handler of the loop, which ends the monitoring.
MonitoringTurn(fails, outcome) ==
    /\ app_pc = "loop"
    /\ is_running
    /\ app_metrics.total_checks + app_metrics.failed_checks < MaxAppChecks
    /\ LET c == check_asl_system(app_metrics, fails)
           r == send_notification(outcome)
       IN  /\ app_metrics' = c.metrics
           /\ IF c.healthy
              THEN /\ last_call' = Called("check_asl_system", "", FALSE)
                   /\ UNCHANGED <<app_pc, is_running>>
              ELSE /\ last_call' = Notified("error", outcome, r)
                   /\ app_pc' = IF r.raised THEN "stopped" ELSE "loop"
                   /\ is_running' = ~r.raised
    /\ UNCHANGED <<now, loopVars, engineVars, trackerVars, opened, issued, ncalls,
                   streakVars, obsVars, alertVars, formatted, monitors, failure_threshold,
                   engine_results, failing_ret, created, notified, slack_delivery,
                   memory_store, last_notice>>

\* The loop is interrupted (KeyboardInterrupt): stop_monitoring clears the
\* flag and sends the shutdown notification.
StopMonitoring(outcome) ==
    /\ app_pc = "loop"
    /\ is_running' = FALSE
    /\ LET r == send_notification(outcome)
       IN  /\ app_pc' = IF r.raised THEN "crashed" ELSE "stopped"
           /\ last_call' = Notified("shutdown", outcome, r)
    /\ UNCHANGED <<now, loopVars, engineVars, trackerVars, opened, issued, ncalls,
                   streakVars, obsVars, alertVars, formatted, monitors, failure_threshold,
                   engine_results, failing_ret, created, app_metrics, notified, slack_delivery,
                   memory_store, last_notice>>

NextApp ==
    \/ \E outcome \in WebhookOutcomes : StartMonitoring(outcome)
    \/ \E fails \in BOOLEAN, outcome \in WebhookOutcomes : MonitoringTurn(fails, outcome)
    \/ \E outcome \in WebhookOutcomes : StopMonitoring(outcome)

SpecApp == Init /\ [][NextApp]_vars

\* C32: send_notification returns True when the webhook request succeeds
\* and False when it fails with a request error, and does not raise; after
\* a failed startup or error notification the loop of ASLMonitor goes on,
\* and a failed shutdown notification ends the monitoring as a sent one does.
C32_FailedNotificationDoesNotStopLoop ==
    [][last_call'.op = "send_notification"
          => /\ ~last_call'.raised
             /\ last_call'.arg.returned = (last_call'.arg.outcome = "ok")
             /\ last_call'.arg.kind \in {"startup", "error"}
                   => app_pc' = "loop" /\ is_running'
             /\ last_call'.arg.kind = "shutdown" => app_pc' = "stopped"]_vars

\* C32's case: the error notification of a failed check could not be
\* delivered and the loop is still running.
C32_Witness ==
    /\ last_call.op = "send_notification"
    /\ last_call.arg.kind = "error"
    /\ last_call.arg.outcome = "request_error"
    /\ ~last_call.arg.returned
    /\ app_pc = "loop"
    /\ is_running

\* C33: with failure_threshold >= 1 and distinct service names, when the
\* processing of a cycle's results has ended, every service has an active
\* incident exactly when its consecutive_failures is at or above
\* failure_threshold.
C33_ActiveIffAtThreshold ==
    pc \in {"sleep", "top", "done"}
        => \A s \in ServiceNames :
              has_active_incident(active_incidents, s)
                  <=> consecutive_failures[s] >= FailureThreshold

\* C33's case: the processing of a cycle has ended with one service above
\* the threshold, its incident active, and the other back to no failure
\* after an incident of its own, with none active.
C33_Witness ==
    /\ last_call.op = "process_results"
    /\ pc = "sleep"
    /\ consecutive_failures["db"] > FailureThreshold
    /\ "db" \in DOMAIN active_incidents
    /\ consecutive_failures["api"] = 0
    /\ "api" \notin DOMAIN active_incidents
    /\ Len(notified["api"]) = 2

\* C34: for each service the send_alert and send_recovery calls of the loop
\* alternate, starting with send_alert, and every send_recovery carries the
\* incident id of the send_alert before it; no recovery is sent for a
\* service that had no down-alert.
C34_AlertsAndRecoveriesAlternate ==
    \A s \in ServiceNames :
        \A k \in 1..Len(notified[s]) :
            /\ notified[s][k].kind = IF k % 2 = 1 THEN "alert" ELSE "recovery"
            /\ k % 2 = 0 => notified[s][k].id = notified[s][k - 1].id

\* C34's case: a service has had a down-alert, the recovery of that
\* incident and the down-alert of a second incident.
C34_Witness ==
    \E s \in ServiceNames :
        /\ Len(notified[s]) = 3
        /\ notified[s][3].kind = "alert"
        /\ notified[s][3].id # notified[s][1].id

\* C39: in every reachable state, the state left by a start_incident or
\* end_incident call that failed in its write included, every incident of
\* the in-memory active set has status 'active' and no end_time and no
\* duration_seconds.
C39_ActiveSetHoldsOpenIncidents ==
    \A s \in DOMAIN active_incidents :
        /\ active_incidents[s].status = "active"
        /\ active_incidents[s].end_time = None
        /\ active_incidents[s].duration_seconds = None

\* ------------------------------------- incident_tracker.py, statistics
\* The limit get_statistics reads the history with.
StatisticsLimit == 1000

RECURSIVE SumDurations(_, _)
SumDurations(incidents, i) ==
    IF i > Len(incidents) THEN 0
    ELSE incidents[i].duration_seconds[1] + SumDurations(incidents, i + 1)

\* round(num / den, 2) in hundredths, a tie going to the even neighbour.
Round2(num, den) ==
    LET q == (100 * num) \div den
        r == (100 * num) % den
    IN  IF 2 * r > den \/ (2 * r = den /\ q % 2 = 1) THEN q + 1 ELSE q

\* IncidentTracker.get_statistics; the three durations in hundredths.
get_statistics(active, dir, listing) ==
    LET history == get_incident_history(dir, listing, StatisticsLimit)
        resolved == SelectSeq(history, LAMBDA i : i.status = "resolved")
        durations == {resolved[k].duration_seconds[1] : k \in 1..Len(resolved)}
    IN  [total_incidents |-> Len(history),
         resolved_incidents |-> Len(resolved),
         active_incidents |-> Cardinality(DOMAIN active),
         average_duration_seconds |->
             IF Len(resolved) = 0 THEN 0
             ELSE Round2(SumDurations(resolved, 1), Len(resolved)),
         max_duration_seconds |->
             IF Len(resolved) = 0 THEN 0
             ELSE 100 * (CHOOSE d \in durations : \A e \in durations : e <= d),
         min_duration_seconds |->
             IF Len(resolved) = 0 THEN 0
             ELSE 100 * (CHOOSE d \in durations : \A e \in durations : d <= e)]

\* A call of IncidentTracker.get_statistics.
GetStatistics(listing) ==
    /\ ncalls < MaxCalls
    /\ last_call' = CalledWith("get_statistics", "", FALSE,
                                get_statistics(active_incidents, files, listing))
    /\ ncalls' = ncalls + 1
    /\ UNCHANGED <<now, loopVars, engineVars, trackerVars, opened, issued, streakVars,
                   obsVars, alertVars, restVars, created>>

\* A whole second passes between two calls.
NextSecond ==
    /\ now < MaxTrackerTime * TicksPerSecond
    /\ now' = now + TicksPerSecond
    /\ last_call' = Called("tick", "", FALSE)
    /\ UNCHANGED <<loopVars, engineVars, trackerVars, opened, issued, ncalls, streakVars,
                   obsVars, alertVars, restVars, created>>

\* The tracker over a store that can be written: calls that return, a
\* second or more apart or within the same second.
NextStore ==
    \/ \E s \in ServiceNames, details \in DetailsSet : StartIncident(s, details, TRUE)
    \/ \E s \in ServiceNames : EndIncident(s, TRUE)
    \/ \E listing \in Listings(files) : GetStatistics(listing)
    \/ NextSecond

SpecStore == Init /\ [][NextStore]_vars

\* The services that have a stored record with status 'active'.
StoredActive == {files[id].service : id \in {i \in DOMAIN files : files[i].status = "active"}}

\* C35: after any sequence of start_incident and end_incident calls that
\* returned, on a tracker started over an empty store, the services with
\* a stored record of status 'active' are the services of the in-memory
\* active set, and each such record has the id of the in-memory incident.
C35_StoredActiveIsActiveSet ==
    /\ StoredActive = DOMAIN active_incidents
    /\ \A id \in DOMAIN files :
          files[id].status = "active"
              => /\ files[id].service \in DOMAIN active_incidents
                 /\ active_incidents[files[id].service].id = id

\* C36: after any sequence of start_incident and end_incident calls that
\* creates fewer than 1000 incidents, on a tracker started over an empty
\* store, get_statistics reports total_incidents equal to
\* resolved_incidents plus active_incidents.
C36_TotalIsResolvedPlusActive ==
    last_call.op = "get_statistics"
        => last_call.arg.total_incidents
              = last_call.arg.resolved_incidents + last_call.arg.active_incidents

\* ------------------------- the alert manager with a webhook configured
\* The snapshots explored with a webhook: nothing above its threshold, the
\* CPU alone, the memory alone, every metric.
SlackSnapshots ==
    {SnapshotOf(above) : above \in {{}, {"cpu"}, {"memory"}, AlertKeys}}

\* A call of AlertManager.check_thresholds of a manager that has a webhook
\* URL, with the way the webhook requests of its alerts end.
CheckThresholdsSlack(metrics, delivery) ==
    /\ nchecks < MaxChecks
    /\ LET r == check_thresholds(last_alert_time, alert_history, metrics, alert_clock)
       IN  /\ last_alert_time' = r.last
           /\ alert_history' = r.history
           /\ emitted' = Emit(emitted, r.keys, r.alerts, alert_clock)
    /\ nchecks' = nchecks + 1
    /\ slack_delivery' = delivery
    /\ last_call' = CalledWith("check_thresholds", "",
                                manager_send_slack_notification(delivery).raised, metrics)
    /\ UNCHANGED <<now, loopVars, engineVars, trackerVars, opened, issued, ncalls,
                   streakVars, obsVars, alert_clock, nadvances, formatted, monitors,
                   failure_threshold, engine_results, failing_ret, created, appVars,
                   notified, memory_store, last_notice>>

NextSlackAlerts ==
    \/ \E metrics \in SlackSnapshots, delivery \in WebhookOutcomes :
          CheckThresholdsSlack(metrics, delivery)
    \/ \E d \in {1, AlertCooldown - 1} : AdvanceClock(d)

SpecSlackAlerts == Init /\ [][NextSlackAlerts]_vars

\* C37: last_alert_time[key] is set to the current time in exactly the
\* check_thresholds calls that emit an alert under that key, whether the
\* Slack delivery succeeds or not; a call in which the value is not above
\* the threshold, or the cooldown suppresses the alert, leaves
\* last_alert_time[key] as it was, and a call that emits nothing leaves
\* alert_history as it was.
C37_LastAlertTimeSetWhenEmitted ==
    [][/\ last_alert_time' # last_alert_time => last_call'.op = "check_thresholds"
       /\ last_call'.op = "check_thresholds"
             => LET new == SubSeq(emitted', Len(emitted) + 1, Len(emitted'))
                    keys == {new[j].key : j \in 1..Len(new)}
                IN  /\ ~last_call'.raised
                    /\ \A k \in AlertKeys :
                          IF k \in keys
                          THEN /\ k \in DOMAIN last_alert_time'
                               /\ last_alert_time'[k] = alert_clock
                          ELSE /\ (k \in DOMAIN last_alert_time') = (k \in DOMAIN last_alert_time)
                               /\ k \in DOMAIN last_alert_time
                                     => last_alert_time'[k] = last_alert_time[k]
                    /\ DOMAIN last_alert_time' \subseteq AlertKeys
                    /\ new = <<>> => alert_history' = alert_history]_vars

\* C37's case: every metric is above its threshold and the webhook request
\* fails; the CPU alert was emitted and its instant recorded, while the
\* memory alert, emitted a second before, was suppressed and its instant
\* kept.
C37_Witness ==
    /\ last_call.op = "check_thresholds"
    /\ last_call.arg = SnapshotOf(AlertKeys)
    /\ slack_delivery = "request_error"
    /\ "cpu" \in DOMAIN last_alert_time
    /\ "memory" \in DOMAIN last_alert_time
    /\ last_alert_time["cpu"] = alert_clock
    /\ last_alert_time["memory"] = alert_clock - 1
    /\ EmittedAt(emitted, "memory") = {alert_clock - 1}

\* ------------------------------------- the readers of the recent history
\* DataStore.max_memory_items, the maxlen of the deque.
MaxMemoryItems == 1000

\* Python's items[-limit:] for limit >= 0: -0 is 0, the slice from the
\* first item; a limit above the length gives every item.
slice_last(items, limit) ==
    IF limit = 0 \/ limit >= Len(items)
    THEN items
    ELSE SubSeq(items, Len(items) - limit + 1, Len(items))

\* AlertManager.get_alert_history
get_alert_history(history, limit) == slice_last(history, limit)

\* DataStore.get_history
get_history(items, limit) ==
    IF Len(items) > limit THEN slice_last(items, limit) ELSE items

\* deque(maxlen=max_memory_items).append
memory_store_append(items, metrics) ==
    LET all == Append(items, metrics)
    IN  IF Len(all) > MaxMemoryItems THEN Tail(all) ELSE all

\* A call of DataStore.store.
Store(metrics) ==
    /\ Len(memory_store) < MaxStored
    /\ memory_store' = memory_store_append(memory_store, metrics)
    /\ last_call' = Called("store", "", FALSE)
    /\ UNCHANGED <<now, loopVars, engineVars, trackerVars, opened, issued, ncalls,
                   streakVars, obsVars, alertVars, formatted, monitors, failure_threshold,
                   engine_results, failing_ret, created, appVars, notified,
                   slack_delivery, last_notice>>

\* A call of AlertManager.get_alert_history.
GetAlertHistory(limit) ==
    /\ last_call' = CalledWith("get_alert_history", "", FALSE,
                                [limit |-> limit,
                                 ret |-> get_alert_history(alert_history, limit)])
    /\ UNCHANGED <<now, loopVars, engineVars, trackerVars, opened, issued, ncalls,
                   streakVars, obsVars, alertVars, restVars, created>>

\* A call of DataStore.get_history.
GetHistory(limit) ==
    /\ last_call' = CalledWith("get_history", "", FALSE,
                                [limit |-> limit,
                                 ret |-> get_history(memory_store, limit)])
    /\ UNCHANGED <<now, loopVars, engineVars, trackerVars, opened, issued, ncalls,
                   streakVars, obsVars, alertVars, restVars, created>>

NextReaders ==
    \/ \E metrics \in SlackSnapshots : CheckThresholds(metrics)
    \/ \E metrics \in 1..MaxStored : Store(metrics)
    \/ \E limit \in 0..MaxStored + 1 : GetAlertHistory(limit)
    \/ \E limit \in 0..MaxStored + 1 : GetHistory(limit)

SpecReaders == Init /\ [][NextReaders]_vars

\* The last min(limit, Len(items)) items, in their order.
MostRecent(items, limit) ==
    LET k == IF limit < Len(items) THEN limit ELSE Len(items)
    IN  SubSeq(items, Len(items) - k + 1, Len(items))

\* C38: for every limit >= 0, get_alert_history(limit) and
\* get_history(limit) return the min(limit, n) most recently stored
\* records, in insertion order, and never more than limit records.
C38_ReadersReturnMostRecent ==
    /\ last_call.op = "get_alert_history"
          => /\ last_call.arg.ret = MostRecent(alert_history, last_call.arg.limit)
             /\ Len(last_call.arg.ret) <= last_call.arg.limit
    /\ last_call.op = "get_history"
          => /\ last_call.arg.ret = MostRecent(memory_store, last_call.arg.limit)
             /\ Len(last_call.arg.ret) <= last_call.arg.limit

\* ------------------------------------ the service loop, run without end
\* The loop with no exception from the store or the notifier, explored
\* beyond the horizon of the clock: an instant past MaxLiveTime is read as
\* MaxLiveTime. The loop compares instants only to compute its sleep, so its
\* decisions are those of the loop under an unbounded clock; the observers
\* that count calls without bound (issued, recoveries, notified) are left
\* alone and last_notice keeps the kind of the latest notification.
Saturate(t) == IF t > MaxLiveTime THEN MaxLiveTime ELSE t

\* _monitoring_loop: cycle_start and check_all_services.
LiveCheckAllServices ==
    /\ pc = "top"
    /\ loop_continues(running)
    /\ \E plan \in [ServiceNames -> LoopProbes] :
        /\ \A s \in ServiceNames :
              plan[s].kind # "ok" => consecutive_failures[s] < MaxFailures
        /\ cycle_start' = now
        /\ now' = Saturate(now + SumTicks(plan, Len(Services)))
        /\ LET r == check_all_services([failures |-> consecutive_failures,
                                        last |-> last_check_result,
                                        results |-> <<>>,
                                        probed |-> <<>>], plan, 1)
           IN  /\ consecutive_failures' = r.failures
               /\ last_check_result' = r.last
               /\ results' = r.results
               /\ probed' = r.probed
        /\ streak_starts' =
              [s \in ServiceNames |-> IF plan[s].kind = "ok" THEN 0 ELSE streak_starts[s]]
        /\ streak_alerts' =
              [s \in ServiceNames |-> IF plan[s].kind = "ok" THEN 0 ELSE streak_alerts[s]]
    /\ pc' = "process"
    /\ last_call' = Called("check_all_services", "", FALSE)
    /\ UNCHANGED <<running, trackerVars, opened, issued, ncalls, alert_at, recoveries,
                   alertVars, restVars, created>>

\* _monitoring_loop: _process_results(results), every write and every
\* notification going through.
LiveProcessResults ==
    /\ pc = "process"
    /\ LET st == process_results([active |-> active_incidents, files |-> files,
                                  raised |-> FALSE, starts |-> streak_starts,
                                  alerts |-> streak_alerts, issued |-> issued,
                                  alert_at |-> alert_at, recoveries |-> recoveries,
                                  notified |-> notified, cause |-> ""], None)
       IN  /\ active_incidents' = st.active
           /\ files' = st.files
           /\ streak_starts' = st.starts
           /\ streak_alerts' = st.alerts
           /\ alert_at' = st.alert_at
           /\ last_notice' =
                 [s \in ServiceNames |->
                     IF Len(st.notified[s]) > Len(notified[s])
                     THEN st.notified[s][Len(st.notified[s])].kind
                     ELSE last_notice[s]]
           /\ pc' = IF st.raised THEN "crashed" ELSE "sleep"
           /\ last_call' = CalledWith("process_results", "", st.raised, st.cause)
    /\ UNCHANGED <<now, running, cycle_start, engineVars, opened, issued, ncalls, probed,
                   recoveries, alertVars, formatted, monitors, failure_threshold,
                   engine_results, failing_ret, created, appVars, notified,
                   slack_delivery, memory_store>>

\* _monitoring_loop: the sleep that ends the cycle.
LiveSleep ==
    /\ pc = "sleep"
    /\ LET elapsed == now - cycle_start
       IN  /\ now' = Saturate(now + sleep_time(elapsed))
           /\ last_call' = CalledWith("sleep", "", FALSE,
                                       IF sleep_time(elapsed) > 0 THEN "slept" ELSE "skipped")
    /\ pc' = "top"
    /\ probed' = <<>>
    /\ UNCHANGED <<running, cycle_start, engineVars, trackerVars, opened, issued, ncalls,
                   streakVars, alert_at, recoveries, alertVars, restVars, created>>

NextLive ==
    \/ Start
    \/ Stop
    \/ LoopExit
    \/ LiveCheckAllServices
    \/ LiveProcessResults
    \/ LiveSleep

\* The loop moves on to its next position: from the top of a cycle that
\* starts to the processing, from the processing to the sleep, from the
\* sleep to the top. Under NextLive these are the steps
\* LiveCheckAllServices, LiveProcessResults and LiveSleep, each possible
\* whenever the loop is at its position.
LoopAdvances ==
    \/ pc = "top" /\ loop_continues(running) /\ pc' = "process"
    \/ pc = "process" /\ pc' = "sleep"
    \/ pc = "sleep" /\ pc' = "top"

\* The loop runs in a thread of its own: a step of the loop that stays
\* possible is taken.
SpecLive ==
    /\ Init
    /\ [][NextLive]_vars
    /\ WF_pc(LoopAdvances)

\* A service that has started to fail comes to have an active incident
\* and a down-alert, unless a probe of it succeeds or the loop is stopped
\* before that.
FailingComesToBeOpened(s) ==
    (running /\ consecutive_failures[s] >= 1)
        ~> \/ has_active_incident(active_incidents, s) /\ last_notice[s] = "alert"
           \/ consecutive_failures[s] = 0
           \/ ~running

\* A service whose failures have reached the threshold comes to have an
\* active incident and a down-alert: the cycle that counted the failure
\* runs to its end even when the loop is stopped meanwhile.
AtThresholdComesToBeOpened(s) ==
    consecutive_failures[s] >= FailureThreshold
        ~> (has_active_incident(active_incidents, s) /\ last_notice[s] = "alert")

\* A service with an active incident whose probe has succeeded comes to
\* have it resolved and the recovery sent.
RecoveredComesToBeClosed(s) ==
    (has_active_incident(active_incidents, s) /\ consecutive_failures[s] = 0)
        ~> /\ ~has_active_incident(active_incidents, s)
           /\ last_notice[s] = "recovery"
           /\ \E id \in DOMAIN files :
                 files[id].service = s /\ files[id].status = "resolved"

\* C40: while the loop keeps running, with no exception from the store or
\* the notifier, a service that has started to fail comes to have an active
\* incident and a down-alert sent for it unless one of its probes succeeds
\* before that; and a service with an active incident whose probe has
\* succeeded comes to have the incident stored as resolved, out of the
\* active set, and a recovery notification sent.
C40_FailingOpensRecoveredCloses ==
    /\ FailingComesToBeOpened(Services[1])
    /\ FailingComesToBeOpened(Services[2])
    /\ AtThresholdComesToBeOpened(Services[1])
    /\ AtThresholdComesToBeOpened(Services[2])
    /\ RecoveredComesToBeClosed(Services[1])
    /\ RecoveredComesToBeClosed(Services[2])

\* C40's case: the clock is past its horizon; the incident of one service
\* has been resolved and its recovery sent, the other service has an
\* active incident and its down-alert was the latest notification for it.
C40_Witness ==
    /\ now = MaxLiveTime
    /\ pc = "sleep"
    /\ last_notice["api"] = "recovery"
    /\ ~has_active_incident(active_incidents, "api")
    /\ \E id \in DOMAIN files : files[id].service = "api" /\ files[id].status = "resolved"
    /\ has_active_incident(active_incidents, "db")
    /\ last_notice["db"] = "alert"

====
